---- MODULE Spec2Model ----
(***************************************************************************)
(* A model of the reinforcement-learning racing environment:               *)
(*   modules/sprite.py  (Sprite: the agent's kinematic state)              *)
(*   modules/env.py     (create_snapshot, BaseEnv, Env, Baseline)          *)
(*                                                                         *)
(* Reals are fixed point.  Velocity and position are counted in 1/VelUnit  *)
(* (velocity in pixels per tick, position in pixels), rotation in          *)
(* 1/RotUnit of a radian, attenuation in 1/AttUnit, cosine and sine in     *)
(* 1/TrigUnit.  With these units every constant of the source and every    *)
(* product the source forms from them is an integer.                       *)
(***************************************************************************)
EXTENDS Integers, Sequences, FiniteSets, TLC

VARIABLES
    velocity,       \* Sprite.velocity
    rotation,       \* Sprite.rotation
    position,       \* Sprite.position, <<x, y>>
    lastOp,         \* the operation that ran last
    raised,         \* whether that operation ended by raising
    lastAction,     \* the action id given to the last act_actions
    lastDeltas,     \* the <<motion, steering>> pair it decoded
    spriteOps,      \* number of Sprite operations applied so far
    frame_buffer,   \* Env.frame_buffer (headless)
    agent_active,   \* Env.agent_active
    frame_size,     \* Env.frame_size, <<width, height>> in pixels
    done,           \* BaseEnv.done
    exit,           \* BaseEnv.exit
    attenuation,    \* Env.attenuation
    prev_time,      \* Env.prev_time (set only when not agent_active)
    ticks,          \* the last reading of pygame.time.get_ticks()
    alive,          \* the Track's telemetry: params["alive"]
    trackActs,      \* number of Track.act calls made
    stepCalls,      \* number of Env.step calls made
    deadSeen,       \* a state call has read alive = false since the last reset
    ret,            \* what the last Env.state call returned
    log,            \* the calls the last Env.step made, in order
    releases,       \* number of Env.release calls made
    polled,         \* the direct Env.event_handler calls: their number, and the
                    \* keys held and events pending at the last
    cartX,          \* Baseline: the wrapped simulator's state[0], in 1/XUnit
    viewport,       \* Baseline: the columns <<from, to>> the last state call kept
    simSteps,       \* Baseline: number of steps of the wrapped simulator
    blSteps         \* Baseline: number of Baseline.step calls made

spriteVars == <<velocity, rotation, position>>
callVars == <<lastOp, raised>>
unitVars == <<lastAction, lastDeltas, spriteOps>>
configVars == <<frame_buffer, agent_active, frame_size>>
envVars == <<done, exit, attenuation, prev_time, ticks, alive, trackActs,
             stepCalls, deadSeen, ret, log, releases, polled>>
blVars == <<cartX, viewport, simSteps, blSteps>>
vars == <<spriteVars, callVars, unitVars, configVars, envVars, blVars>>

----------------------------------------------------------------------------
(* Units of the fixed-point representation. *)
VelUnit == 10000
RotUnit == 100000
AttUnit == 100
TrigUnit == 10000

(* Bounds of the model. *)
MaxSpriteOps == 4

----------------------------------------------------------------------------
(* modules/sprite.py: class Sprite *)

MAX_VELOCITY == 34500
MIN_VELOCITY == -19200
acceleration == 250
steering == 3700

(* The quotient rounded toward zero, as Python's int() and numpy's         *)
(* astype(int) round a float.                                              *)
TruncDiv(a, b) == IF a >= 0 THEN a \div b ELSE -((-a) \div b)

(* np.cos and np.sin of a rotation, by their Taylor polynomials to the     *)
(* fourth order (exact to 1/TrigUnit for the rotations of the model, which *)
(* stay below one radian).                                                 *)
Milli(rot) == TruncDiv(rot, RotUnit \div 1000)
Cos(rot) ==
    LET r == Milli(rot)
        q == (r * r) \div 100
    IN  TrigUnit - TruncDiv(r * r, 200) + TruncDiv(q * q, 240000)
Sin(rot) ==
    LET r == Milli(rot)
        q == (r * r) \div 100
    IN  10 * r - TruncDiv(r * q, 6000)

(* Sprite.movement: the velocity it leaves. *)
movement_no_lower_clamp(v, delta) ==
    LET w == v + delta
    IN  IF w > MAX_VELOCITY THEN MAX_VELOCITY ELSE w
movement(v, delta) ==
    LET w == v + delta
    IN  IF w > MAX_VELOCITY THEN MAX_VELOCITY
        ELSE IF w < MIN_VELOCITY THEN MIN_VELOCITY
        ELSE w

(* Sprite.act: the position it leaves. *)
act(pos, rot, v, scaling) ==
    LET dx == TruncDiv(TruncDiv(Cos(rot) * v, TrigUnit) * scaling, AttUnit)
        dy == TruncDiv(TruncDiv((-Sin(rot)) * v, TrigUnit) * scaling, AttUnit)
    IN  <<pos[1] + dx, pos[2] + dy>>

(* Sprite.act_actions, lines 61-72: the <<motion, steering>> pair of an    *)
(* action id.                                                              *)
decode_7_unsteered(action) ==
    LET m1 == IF action \in {0, 4, 5} THEN acceleration ELSE 0
        m2 == IF action \in {1, 6, 7} THEN m1 - acceleration ELSE m1
        s1 == IF action \in {3, 5} THEN -steering ELSE 0
        s2 == IF action \in {2, 4, 6} THEN s1 + steering ELSE s1
    IN  <<m2, s2>>
decode_range_test(action) ==
    LET m1 == IF action \in {0, 4, 5} THEN acceleration ELSE 0
        m2 == IF action >= 6 \/ action = 1 THEN m1 - acceleration ELSE m1
        s1 == IF action \in {3, 5, 7} THEN -steering ELSE 0
        s2 == IF action \in {2, 4, 6} THEN s1 + steering ELSE s1
    IN  <<m2, s2>>
decode(action) ==
    LET m1 == IF action \in {0, 4, 5} THEN acceleration ELSE 0
        m2 == IF action \in {1, 6, 7} THEN m1 - acceleration ELSE m1
        s1 == IF action \in {3, 5, 7} THEN -steering ELSE 0
        s2 == IF action \in {2, 4, 6} THEN s1 + steering ELSE s1
    IN  <<m2, s2>>

(* Sprite.reset: the <<velocity, rotation>> it leaves. *)
reset_keeps_rotation(v, rot) == <<0, rot>>
reset(v, rot) == <<0, 0>>

----------------------------------------------------------------------------
(* The Sprite on its own: its methods called in any order. *)

(* The Baseline's part of the state while no Baseline runs. *)
BaselineIdle ==
    /\ cartX = 0
    /\ viewport = <<0, 0>>
    /\ simSteps = 0
    /\ blSteps = 0

(* The environment's part of the state while no environment runs. *)
NoReturn == [frame |-> <<>>, params |-> "None"]
NotPolled == [n |-> 0, keys |-> {}, events |-> <<>>]
EnvIdle ==
    /\ frame_buffer = TRUE
    /\ agent_active = TRUE
    /\ frame_size = <<84, 84>>
    /\ done = FALSE
    /\ exit = FALSE
    /\ attenuation = AttUnit
    /\ prev_time = 0
    /\ ticks = 0
    /\ alive = TRUE
    /\ trackActs = 0
    /\ stepCalls = 0
    /\ deadSeen = FALSE
    /\ ret = NoReturn
    /\ log = <<>>
    /\ releases = 0
    /\ polled = NotPolled
    /\ BaselineIdle

StartPositions == {<<0, 0>>, <<2500000, 2500000>>}
StartRotations == {0, 3 * steering}
Deltas == {-1000000, -MAX_VELOCITY, -acceleration, 0, 15, acceleration,
           MAX_VELOCITY - MIN_VELOCITY, 1000000}
Scalings == {AttUnit, 6 * 17}
ActionIds == -2 .. 9

SpriteInit ==
    /\ velocity = 0
    /\ rotation \in StartRotations
    /\ position \in StartPositions
    /\ lastOp = "init"
    /\ raised = FALSE
    /\ lastAction = 0
    /\ lastDeltas = <<0, 0>>
    /\ spriteOps = 0
    /\ EnvIdle

Sprite_movement(delta) ==
    /\ spriteOps < MaxSpriteOps
    /\ velocity' = movement(velocity, delta)
    /\ lastOp' = "movement"
    /\ raised' = FALSE
    /\ spriteOps' = spriteOps + 1
    /\ UNCHANGED <<rotation, position, lastAction, lastDeltas, configVars, envVars, blVars>>

Sprite_act(scaling) ==
    /\ spriteOps < MaxSpriteOps
    /\ position' = act(position, rotation, velocity, scaling)
    /\ lastOp' = "act"
    /\ raised' = FALSE
    /\ spriteOps' = spriteOps + 1
    /\ UNCHANGED <<velocity, rotation, lastAction, lastDeltas, configVars, envVars, blVars>>

(* act_actions(None) returns at once. *)
Sprite_act_actions_none ==
    /\ spriteOps < MaxSpriteOps
    /\ lastOp' = "act_actions_none"
    /\ raised' = FALSE
    /\ spriteOps' = spriteOps + 1
    /\ UNCHANGED <<velocity, rotation, position, lastAction, lastDeltas, configVars, envVars, blVars>>

Sprite_act_actions(action) ==
    /\ spriteOps < MaxSpriteOps
    /\ velocity' = movement(velocity, decode(action)[1])
    /\ rotation' = rotation + decode(action)[2]
    /\ lastAction' = action
    /\ lastDeltas' = decode(action)
    /\ lastOp' = "act_actions"
    /\ raised' = FALSE
    /\ spriteOps' = spriteOps + 1
    /\ UNCHANGED <<position, configVars, envVars, blVars>>

Sprite_reset ==
    /\ spriteOps < MaxSpriteOps
    /\ velocity' = reset(velocity, rotation)[1]
    /\ rotation' = reset(velocity, rotation)[2]
    /\ lastOp' = "sprite_reset"
    /\ raised' = FALSE
    /\ spriteOps' = spriteOps + 1
    /\ UNCHANGED <<position, lastAction, lastDeltas, configVars, envVars, blVars>>

SpriteNext ==
    \/ \E delta \in Deltas : Sprite_movement(delta)
    \/ \E scaling \in Scalings : Sprite_act(scaling)
    \/ Sprite_act_actions_none
    \/ \E action \in ActionIds : Sprite_act_actions(action)
    \/ Sprite_reset

SpecSprite == SpriteInit /\ [][SpriteNext]_vars

----------------------------------------------------------------------------
(* modules/env.py: create_snapshot *)

SIZE == <<500, 500>>
FPS_CAP == 60

Max(a, b) == IF a >= b THEN a ELSE b

(* create_snapshot, lines 44-48: the crop box <<left, upper, right, lower>>  *)
(* for a frame size in pixels and a center in 1/VelUnit of a pixel.         *)
crop_box(size, center) ==
    LET lu1 == Max(TruncDiv(2 * center[1] - size[1] * VelUnit, 2 * VelUnit), 0)
        lu2 == Max(TruncDiv(2 * center[2] - size[2] * VelUnit, 2 * VelUnit), 0)
    IN  <<lu1, lu2, lu1 + size[1], lu2 + size[2]>>

(* Sprite.get_position: the anchored position. SPRITE_SIZE is 25 x 25, and *)
(* car_size_offset half of it.                                             *)
SPRITE_SIZE == <<25, 25>>
SpriteOffset == <<0, 0>>
get_position(pos) ==
    <<pos[1] + SpriteOffset[1] - (SPRITE_SIZE[1] * VelUnit) \div 2,
      pos[2] + SpriteOffset[2] - (SPRITE_SIZE[2] * VelUnit) \div 2>>

----------------------------------------------------------------------------
(* The Track collaborator (modules/track.py), at its boundary. *)

TrackStart == <<2500000, 2500000>>

(* The methods the class Sprite defines. *)
SpriteMethods == {"__init__", "initialize", "movement", "act", "act_actions",
                  "reset", "get_position", "render", "get_params"}

(* The environment while a call runs: the fields a call may change. *)
Cur == [velocity |-> velocity, rotation |-> rotation, position |-> position,
        exit |-> exit, alive |-> alive, trackActs |-> trackActs,
        attenuation |-> attenuation, prev_time |-> prev_time, ticks |-> ticks,
        raised |-> FALSE, log |-> <<>>]

(* Track.reset_track: the agent is reset and put at a start position. *)
reset_track(e, pos) ==
    [e EXCEPT !.velocity = 0, !.rotation = 0, !.position = pos, !.alive = TRUE]

(* Track.act(attenuation): integrates the agent and recomputes alive. *)
track_act(e, aliveNext) ==
    [e EXCEPT !.position = act(e.position, e.rotation, e.velocity, e.attenuation),
              !.alive = aliveNext,
              !.trackActs = @ + 1,
              !.log = Append(@, "track.act")]

----------------------------------------------------------------------------
(* modules/env.py: class Env *)

ENV_ACTION_SPACE == 4

Keys == {"UP", "DOWN", "LEFT", "RIGHT"}
EventKinds == {"QUIT", "ESCAPE", "PRINT", "R", "OTHER"}

(* A call of a Sprite method by name: it raises AttributeError when the    *)
(* class has no such method.                                               *)
Raise(e) == [e EXCEPT !.raised = TRUE]
Called(e, name) == [e EXCEPT !.log = Append(@, name)]

(* event_handler, lines 217-227: the held keys. *)
key_press(e, keys) ==
    LET scaled(c) == (c * e.attenuation) \div AttUnit
        e1 == IF "UP" \in keys
              THEN [e EXCEPT !.velocity = movement(@, scaled(acceleration))]
              ELSE IF "DOWN" \in keys
              THEN [e EXCEPT !.velocity = movement(@, -scaled(acceleration))]
              ELSE e
    IN  IF "LEFT" \in keys
        THEN IF "steer" \in SpriteMethods
             THEN [e1 EXCEPT !.rotation = @ + scaled(steering)]
             ELSE Raise(e1)
        ELSE IF "RIGHT" \in keys
        THEN IF "steer" \in SpriteMethods
             THEN [e1 EXCEPT !.rotation = @ - scaled(steering)]
             ELSE Raise(e1)
        ELSE e1

(* event_handler, lines 230-242: the pending events, in order. *)
RECURSIVE event_loop(_, _)
event_loop(e, events) ==
    IF events = <<>> THEN e
    ELSE LET ev == Head(events)
             e1 == IF ev \in {"QUIT", "ESCAPE"} THEN [e EXCEPT !.exit = TRUE]
                   ELSE IF ev = "R" THEN reset_track(e, TrackStart)
                   ELSE e
         IN  event_loop(e1, Tail(events))

(* Env.event_handler *)
event_handler_keys_ungated(e, keys, events) ==
    IF frame_buffer THEN e
    ELSE LET e1 == key_press(e, keys)
         IN  IF e1.raised THEN e1 ELSE event_loop(e1, events)
event_handler(e, keys, events) ==
    IF frame_buffer THEN e
    ELSE LET e1 == IF agent_active THEN e ELSE key_press(e, keys)
         IN  IF e1.raised THEN e1 ELSE event_loop(e1, events)

(* Env.step, lines 191-192: the action is given to the sprite's act_action. *)
apply_action(e, hasAction, action) ==
    IF ~hasAction THEN e
    ELSE IF "act_action" \in SpriteMethods
    THEN [Called(e, "act_action")
            EXCEPT !.velocity = movement(@, decode(action)[1]),
                   !.rotation = @ + decode(action)[2]]
    ELSE Raise(Called(e, "act_action"))

(* Env.step, lines 195-199: the track is drawn, and the display flipped    *)
(* when windowed.                                                          *)
render(e) ==
    IF frame_buffer THEN Called(e, "track.render")
    ELSE Called(Called(e, "track.render"), "display.flip")

(* Env.step, lines 201-207: the clock is read and the attenuation set.     *)
(* prev_time and clock exist only when the environment is not agent_active.*)
synchronize(e, sync, tick) ==
    IF ~sync THEN e
    ELSE IF agent_active THEN Raise(Called([e EXCEPT !.ticks = tick], "get_ticks"))
    ELSE [Called(Called(Called(e, "get_ticks"), "attenuation"), "clock.tick")
            EXCEPT !.ticks = tick,
                   !.attenuation = ((tick - e.prev_time) * FPS_CAP * AttUnit) \div 1000,
                   !.prev_time = tick]

(* Env.step, the whole of it. *)
step_physics_first(e, hasAction, action, sync, keys, events, aliveNext, tick) ==
    LET e1 == Called(event_handler(Called(e, "event_handler"), keys, events),
                     "surface.fill")
        e2 == IF e1.raised THEN e1 ELSE track_act(e1, aliveNext)
        e3 == IF e2.raised THEN e2 ELSE apply_action(e2, hasAction, action)
    IN  IF e3.raised THEN e3 ELSE synchronize(render(e3), sync, tick)
step(e, hasAction, action, sync, keys, events, aliveNext, tick) ==
    LET e0 == event_handler(Called(e, "event_handler"), keys, events)
        e1 == IF e0.raised THEN e0 ELSE Called(e0, "surface.fill")
        e2 == IF e1.raised THEN e1 ELSE apply_action(e1, hasAction, action)
        e3 == IF e2.raised THEN e2 ELSE track_act(e2, aliveNext)
    IN  IF e3.raised THEN e3 ELSE synchronize(render(e3), sync, tick)

(* Env.state, line 179: whether the done update raises, and the flag it    *)
(* leaves. params is None when params_active is false.                     *)
state_raises(d, params_active) == ~d /\ ~params_active
state_done_forgetful(d, params_active, a) == ~a
state_done(d, params_active, a) == d \/ ~a

(* Bounds of the model. *)
MaxSteps == 2

FrameSizes == {<<84, 84>>}
TickSteps == {0, 17}
EventQueues == {<<>>, <<"R", "QUIT">>, <<"ESCAPE">>, <<"PRINT">>}

SpriteIdle ==
    /\ lastAction = 0
    /\ lastDeltas = <<0, 0>>
    /\ spriteOps = 0

Init ==
    /\ frame_buffer \in BOOLEAN
    /\ agent_active \in BOOLEAN
    /\ frame_size \in FrameSizes
    /\ done = FALSE
    /\ exit = FALSE
    /\ attenuation = AttUnit
    /\ prev_time = 0
    /\ ticks = 0
    /\ alive = TRUE
    /\ trackActs = 0
    /\ stepCalls = 0
    /\ deadSeen = FALSE
    /\ ret = NoReturn
    /\ log = <<>>
    /\ releases = 0
    /\ polled = NotPolled
    /\ velocity = 0
    /\ rotation = 0
    /\ position = TrackStart
    /\ lastOp = "init"
    /\ raised = FALSE
    /\ SpriteIdle
    /\ BaselineIdle

Env_step(hasAction, action, sync, keys, events, aliveNext, tick) ==
    \E e \in {step(Cur, hasAction, action, sync, keys, events, aliveNext, tick)} :
        /\ stepCalls < MaxSteps
        /\ velocity' = e.velocity
        /\ rotation' = e.rotation
        /\ position' = e.position
        /\ exit' = e.exit
        /\ alive' = e.alive
        /\ trackActs' = e.trackActs
        /\ attenuation' = e.attenuation
        /\ prev_time' = e.prev_time
        /\ ticks' = e.ticks
        /\ raised' = e.raised
        /\ lastOp' = "step"
        /\ stepCalls' = stepCalls + 1
        /\ log' = e.log
        /\ UNCHANGED <<done, deadSeen, ret, releases, polled, unitVars, configVars,
                       blVars>>

Env_state(frame_active, params_active) ==
    /\ lastOp' = "state"
    /\ raised' = state_raises(done, params_active)
    /\ done' = IF state_raises(done, params_active) THEN done
               ELSE state_done(done, params_active, alive)
    /\ deadSeen' = (deadSeen \/ (params_active /\ ~alive))
    /\ ret' = IF state_raises(done, params_active) THEN NoReturn
              ELSE [frame |-> IF frame_active
                              THEN crop_box(frame_size, get_position(position))
                              ELSE <<>>,
                    params |-> IF ~params_active THEN "None"
                               ELSE IF alive THEN "alive" ELSE "dead"]
    /\ UNCHANGED <<spriteVars, unitVars, configVars, blVars, exit, attenuation,
                   prev_time, ticks, alive, trackActs, stepCalls, log,
                   releases, polled>>

Env_reset(pos) ==
    LET e == reset_track(Cur, pos)
    IN  /\ velocity' = e.velocity
        /\ rotation' = e.rotation
        /\ position' = e.position
        /\ alive' = e.alive
        /\ lastOp' = "reset"
        /\ raised' = FALSE
        /\ deadSeen' = FALSE
        /\ UNCHANGED <<done, exit, attenuation, prev_time, ticks, trackActs,
                       stepCalls, ret, log, releases, polled, unitVars,
                       configVars, blVars>>

(* The inputs a step reads: the held keys when windowed and not           *)
(* agent_active, the event queue when windowed and the keys did not raise,  *)
(* the track's next telemetry when the step reaches Track.act, the clock    *)
(* when it reaches line 203. A step that raises reads nothing further, and  *)
(* its remaining arguments do not matter.                                   *)
EnvActions == {0, 8}
ActionChoices(keys) ==
    IF event_handler(Cur, keys, <<>>).raised THEN {<<FALSE, 0>>}
    ELSE {<<FALSE, 0>>} \cup {<<TRUE, a>> : a \in EnvActions}
KeyChoices == IF frame_buffer \/ agent_active THEN {{}} ELSE SUBSET Keys
EventChoices(keys) ==
    IF frame_buffer \/ event_handler(Cur, keys, <<>>).raised
    THEN {<<>>} ELSE EventQueues
ReachesTrack(ac, keys, events) ==
    LET e1 == event_handler(Cur, keys, events)
    IN  ~e1.raised /\ ~apply_action(e1, ac[1], ac[2]).raised
AliveChoices(ac, keys, events) ==
    IF ReachesTrack(ac, keys, events) THEN BOOLEAN ELSE {alive}
SyncChoices(ac, keys, events) ==
    IF ReachesTrack(ac, keys, events) THEN BOOLEAN ELSE {FALSE}
TickChoices(sync) == IF sync THEN {ticks + d : d \in TickSteps} ELSE {ticks}

Step ==
    /\ stepCalls < MaxSteps
    /\ \E keys \in KeyChoices :
        \E events \in EventChoices(keys), ac \in ActionChoices(keys) :
            \E aliveNext \in AliveChoices(ac, keys, events),
               sync \in SyncChoices(ac, keys, events) :
                \E tick \in TickChoices(sync) :
                    Env_step(ac[1], ac[2], sync, keys, events, aliveNext, tick)

State == \E frame_active \in BOOLEAN, params_active \in BOOLEAN :
            Env_state(frame_active, params_active)

Reset == \E pos \in StartPositions : Env_reset(pos)

Next == Step \/ State \/ Reset

Spec == Init /\ [][Next]_vars

----------------------------------------------------------------------------
(* create_snapshot's crop on its own: Env.state for agent positions all    *)
(* over the canvas and several frame sizes.                                *)

CropCenters == {0, 30, 42, 250, 458, 470, 500}
CropFrameSizes == {<<84, 84>>, <<100, 60>>, <<500, 500>>}

(* The position whose anchored position is <<x, y>> pixels. *)
Anchored(x, y) ==
    <<x * VelUnit - SpriteOffset[1] + (SPRITE_SIZE[1] * VelUnit) \div 2,
      y * VelUnit - SpriteOffset[2] + (SPRITE_SIZE[2] * VelUnit) \div 2>>

CropInit ==
    /\ frame_buffer = TRUE
    /\ agent_active = TRUE
    /\ frame_size \in CropFrameSizes
    /\ done = FALSE
    /\ exit = FALSE
    /\ attenuation = AttUnit
    /\ prev_time = 0
    /\ ticks = 0
    /\ alive = TRUE
    /\ trackActs = 0
    /\ stepCalls = 0
    /\ deadSeen = FALSE
    /\ ret = NoReturn
    /\ log = <<>>
    /\ releases = 0
    /\ polled = NotPolled
    /\ velocity = 0
    /\ rotation = 0
    /\ position \in {Anchored(x, y) : x \in CropCenters, y \in CropCenters}
    /\ lastOp = "init"
    /\ raised = FALSE
    /\ SpriteIdle
    /\ BaselineIdle

SpecCrop == CropInit /\ [][State]_vars

----------------------------------------------------------------------------
(* modules/env.py: class Baseline *)

XUnit == 1000
screen_width == 600
view_width == 320

(* x_threshold of the wrapped CartPole simulator, 2.4, in 1/XUnit. *)
x_threshold == 2400

(* Baseline.get_cart_location: int(state[0] * scale + screen_width / 2.0). *)
get_cart_location(x) ==
    LET world_width == x_threshold * 2
    IN  TruncDiv(x * screen_width + (screen_width \div 2) * world_width,
                 world_width)

(* A Python slice [start:stop] over n columns, as the columns <<from, to>>  *)
(* it keeps. A bound that is None is given as has = FALSE.                 *)
Min(a, b) == IF a <= b THEN a ELSE b
PyIndex(i, n) == IF i < 0 THEN Max(i + n, 0) ELSE Min(i, n)
PySlice(hasStart, start, hasStop, stop, n) ==
    <<IF hasStart THEN PyIndex(start, n) ELSE 0,
      IF hasStop THEN PyIndex(stop, n) ELSE n>>

(* Baseline.state, lines 282-292: the columns kept of a screen n wide. *)
slice_range_no_right_clamp(cart_location, n) ==
    IF cart_location < view_width \div 2
    THEN PySlice(FALSE, 0, TRUE, view_width, n)
    ELSE PySlice(TRUE, cart_location - view_width \div 2,
                 TRUE, cart_location + view_width \div 2, n)
slice_range(cart_location, n) ==
    IF cart_location < view_width \div 2
    THEN PySlice(FALSE, 0, TRUE, view_width, n)
    ELSE IF cart_location > screen_width - view_width \div 2
    THEN PySlice(TRUE, -view_width, FALSE, 0, n)
    ELSE PySlice(TRUE, cart_location - view_width \div 2,
                 TRUE, cart_location + view_width \div 2, n)

(* Bounds of the model. *)
MaxBlSteps == 3

(* The cart positions the wrapped simulator is let to take, and those its  *)
(* reset draws from.                                                       *)
CartXs == {-2800 + 200 * k : k \in 0 .. 28}
          \cup {-1128, -1127, -1121, -1120, -1119, -1112,
                1112, 1119, 1120, 1121, 1127, 1128}
ResetXs == {-40, 0, 40}

BaselineInit ==
    /\ cartX \in ResetXs
    /\ viewport = <<0, 0>>
    /\ simSteps = 0
    /\ blSteps = 0
    /\ lastOp = "init"
    /\ raised = FALSE
    /\ velocity = 0
    /\ rotation = 0
    /\ position = TrackStart
    /\ SpriteIdle
    /\ EnvIdle

Baseline_state ==
    /\ viewport' = slice_range(get_cart_location(cartX), screen_width)
    /\ lastOp' = "baseline_state"
    /\ raised' = FALSE
    /\ UNCHANGED <<cartX, simSteps, blSteps, spriteVars, unitVars, configVars,
                   envVars>>

(* Baseline.step with an action: the wrapped simulator steps. *)
Baseline_step_action(x) ==
    /\ blSteps < MaxBlSteps
    /\ blSteps' = blSteps + 1
    /\ simSteps' = simSteps + 1
    /\ cartX' = x
    /\ lastOp' = "baseline_step"
    /\ raised' = FALSE
    /\ UNCHANGED <<viewport, spriteVars, unitVars, configVars, envVars>>

(* Baseline.step with action = None: nothing is forwarded. *)
Baseline_step_none ==
    /\ blSteps < MaxBlSteps
    /\ blSteps' = blSteps + 1
    /\ lastOp' = "baseline_step_none"
    /\ raised' = FALSE
    /\ UNCHANGED <<cartX, viewport, simSteps, spriteVars, unitVars, configVars,
                   envVars>>

Baseline_reset(x) ==
    /\ cartX' = x
    /\ lastOp' = "baseline_reset"
    /\ raised' = FALSE
    /\ UNCHANGED <<viewport, simSteps, blSteps, spriteVars, unitVars,
                   configVars, envVars>>

BaselineNext ==
    \/ Baseline_state
    \/ \E x \in CartXs : Baseline_step_action(x)
    \/ Baseline_step_none
    \/ \E x \in ResetXs : Baseline_reset(x)

SpecBaseline == BaselineInit /\ [][BaselineNext]_vars

----------------------------------------------------------------------------
(* The claims. *)

(* C1: done is monotonic. Once a state call has read telemetry with        *)
(* alive = false, and as long as no reset is called, the done flag is true *)
(* after every later call, also after state calls that read alive = true.  *)
C1_DoneMonotonic == deadSeen => done
C1_Witness ==
    /\ deadSeen
    /\ done
    /\ lastOp = "state"
    /\ ~raised
    /\ ret.params = "alive"

(* C2: Env.reset returns the environment to a startable state: after a     *)
(* reset the done flag is false.                                           *)
C2_ResetClearsDone == lastOp = "reset" => ~done

(* C3: the velocity lies in [MIN_VELOCITY, MAX_VELOCITY] after any         *)
(* sequence of movement, act, act_actions and reset calls, whatever the    *)
(* sign and magnitude of the deltas.                                       *)
C3_VelocityBounded == MIN_VELOCITY <= velocity /\ velocity <= MAX_VELOCITY
C3_Witness ==
    /\ lastOp = "movement"
    /\ velocity = MIN_VELOCITY
    /\ spriteOps > 1

(* C4: on a headless environment every step(action = accelerate straight,  *)
(* sync = false) completes and applies the action: the velocity grows by   *)
(* the acceleration constant, up to MAX_VELOCITY, where it stays.          *)
C4_AccelerateStep(aliveNext) ==
    /\ frame_buffer
    /\ Env_step(TRUE, 0, FALSE, {}, <<>>, aliveNext, ticks)
C4_StepAccelerates ==
    [][(\E aliveNext \in BOOLEAN : C4_AccelerateStep(aliveNext))
        => /\ ~raised'
           /\ velocity' = IF velocity + acceleration > MAX_VELOCITY
                          THEN MAX_VELOCITY
                          ELSE velocity + acceleration]_vars

(* C5: Env.state completes without error for every combination of         *)
(* frame_active and params_active, returns None for each part that was not *)
(* requested, and leaves done as it was when no telemetry was pulled.      *)
C5_StateCompletes ==
    lastOp = "state" => ~raised

(* C6: the decode is a table over the ids 0..7: each id maps to one pair   *)
(* of a motion delta in {0, +acceleration, -acceleration} and a steering   *)
(* delta in {0, +steering, -steering}, the 8 pairs are pairwise distinct,  *)
(* and they are all such pairs but <<0, 0>>. The pair act_actions applied  *)
(* last is the table's.                                                    *)
C6_Pairs ==
    ({0, acceleration, -acceleration} \X {0, steering, -steering}) \ {<<0, 0>>}
C6_DecodeTable ==
    /\ \A a \in 0 .. 7 : decode(a) \in C6_Pairs
    /\ \A a, b \in 0 .. 7 : a # b => decode(a) # decode(b)
    /\ {decode(a) : a \in 0 .. 7} = C6_Pairs
    /\ (lastOp = "act_actions" /\ lastAction \in 0 .. 7) => lastDeltas \in C6_Pairs
C6_Witness ==
    /\ lastOp = "act_actions"
    /\ lastAction = 7
    /\ lastDeltas = <<-acceleration, -steering>>

(* C7: an action id outside [0, 7] is a silent no-op: act_actions raises   *)
(* nothing and leaves velocity, rotation and position as they were.        *)
C7_OutOfRangeNoOp ==
    [][(\E a \in ActionIds \ (0 .. 7) : Sprite_act_actions(a))
        => /\ ~raised'
           /\ velocity' = velocity
           /\ rotation' = rotation
           /\ position' = position]_vars
C7_Witness ==
    /\ lastOp = "act_actions"
    /\ lastAction = 8
    /\ lastDeltas = <<0, 0>>
    /\ velocity # 0
    /\ rotation # 0

(* C8: the crop never leaves the canvas: for every anchored position on    *)
(* the canvas and every frame size not larger than the canvas, the crop    *)
(* box lies within the canvas on both axes and has the frame size.         *)
C8_CropInsideCanvas ==
    ret.frame # <<>> =>
        /\ 0 <= ret.frame[1] /\ ret.frame[3] <= SIZE[1]
        /\ 0 <= ret.frame[2] /\ ret.frame[4] <= SIZE[2]
        /\ ret.frame[3] - ret.frame[1] = frame_size[1]
        /\ ret.frame[4] - ret.frame[2] = frame_size[2]

(* C9: for every cart screen location c, the columns Baseline.state keeps  *)
(* are 320 wide and within [0, 600]: [0, 320) when c < 160, [280, 600)     *)
(* when c > 440, and [c - 160, c + 160) otherwise.                         *)
C9_ViewportClamped ==
    lastOp = "baseline_state" =>
        LET c == get_cart_location(cartX)
        IN  /\ viewport[2] - viewport[1] = 320
            /\ 0 <= viewport[1] /\ viewport[2] <= 600
            /\ c < 160 => viewport = <<0, 320>>
            /\ c > 440 => viewport = <<280, 600>>
            /\ (160 <= c /\ c <= 440) => viewport = <<c - 160, c + 160>>
C9_Witness ==
    /\ lastOp = "baseline_state"
    /\ get_cart_location(cartX) > 600
    /\ viewport = <<280, 600>>

(* C10: in both variants the simulator is advanced exactly once per step   *)
(* call, whether or not an action is given: Track.act once per Env.step,   *)
(* the wrapped simulator's step once per Baseline.step.                    *)
C10_StepAdvancesOnce ==
    /\ trackActs = stepCalls
    /\ simSteps = blSteps

(* C11: the attenuation is strictly positive in every reachable state of a *)
(* racing environment, for any sync values and any non-decreasing clock    *)
(* readings, two steps reading the same tick included.                     *)
C11_AttenuationPositive == attenuation > 0

(* C12: Sprite.reset leaves velocity = 0 and rotation = 0 whatever the     *)
(* state before it, and leaves the position as it was.                     *)
C12_ResetZeroes ==
    [][lastOp' = "sprite_reset" /\ spriteOps' = spriteOps + 1
        => /\ velocity' = 0
           /\ rotation' = 0
           /\ position' = position]_vars
C12_Witness ==
    /\ lastOp = "sprite_reset"
    /\ velocity = 0
    /\ rotation = 0
    /\ position \notin StartPositions
    /\ lastDeltas[2] # 0

(* C17: every action id that the decode maps to a non-zero pair lies in    *)
(* the declared action space [0, ENV_ACTION_SPACE): an id outside it       *)
(* produces zero deltas.                                                   *)
C17_DecodedWithinDeclared ==
    (lastOp = "act_actions" /\ lastDeltas # <<0, 0>>)
        => (0 <= lastAction /\ lastAction < ENV_ACTION_SPACE)

(* C14: within every Env.step the calls come in one order: the action is   *)
(* applied before the track's physics advance, that before the track is    *)
(* rendered, that before the attenuation update and the frame-rate wait.   *)
C14_Before(a, b) ==
    \A i, j \in 1 .. Len(log) : (log[i] = a /\ log[j] = b) => i < j
C14_StepOrder ==
    /\ C14_Before("act_action", "track.act")
    /\ C14_Before("track.act", "track.render")
    /\ C14_Before("track.render", "attenuation")
    /\ C14_Before("track.render", "clock.tick")
C14_Witness ==
    /\ lastOp = "step"
    /\ \E i, j, k, l \in 1 .. Len(log) :
        /\ i < j /\ j < k /\ k < l
        /\ log[i] = "track.act"
        /\ log[j] = "track.render"
        /\ log[k] = "attenuation"
        /\ log[l] = "clock.tick"

(* C15: in agent-active mode every Env.step completes for either value of  *)
(* sync and the attenuation is 1.0 after it; in any mode a step with       *)
(* sync = false leaves attenuation and prev_time as they were. Stated here *)
(* for the steps that were given no action.                                *)
C15_AgentStepCompletes ==
    (agent_active /\ lastOp = "step"
        /\ \A i \in 1 .. Len(log) : log[i] # "act_action")
        => (~raised /\ attenuation = AttUnit)

(* C16: the attenuation scales every motion and steering delta: in an      *)
(* Env.step the velocity and rotation change by the nominal delta times    *)
(* the current attenuation, for the deltas of the held keys and for those  *)
(* of a decoded action alike.                                              *)
C16_Scaled(c) == (c * attenuation) \div AttUnit
C16_KeyMotion(keys) ==
    IF "UP" \in keys THEN acceleration
    ELSE IF "DOWN" \in keys THEN -acceleration ELSE 0
C16_KeySteering(keys) ==
    IF "LEFT" \in keys THEN steering
    ELSE IF "RIGHT" \in keys THEN -steering ELSE 0
C16_StepWith(hasAction, action, keys) ==
    \E sync \in BOOLEAN, aliveNext \in BOOLEAN, d \in TickSteps :
        Env_step(hasAction, action, sync, keys, <<>>, aliveNext, ticks + d)
C16_AttenuationScalesDeltas ==
    [][/\ \A keys \in SUBSET Keys :
            (~frame_buffer /\ ~agent_active /\ C16_StepWith(FALSE, 0, keys))
            => /\ ~raised'
               /\ velocity' = movement(velocity, C16_Scaled(C16_KeyMotion(keys)))
               /\ rotation' = rotation + C16_Scaled(C16_KeySteering(keys))
       /\ \A a \in 0 .. 7 :
            (frame_buffer /\ C16_StepWith(TRUE, a, {}))
            => /\ ~raised'
               /\ velocity' = movement(velocity, C16_Scaled(decode(a)[1]))
               /\ rotation' = rotation + C16_Scaled(decode(a)[2])]_vars

(* C18: steering right is a steering delta of +steering on every control   *)
(* path: the ids with a steer-right component (accelerate and steer right  *)
(* is +acceleration, +steering) add +steering to the rotation, the RIGHT   *)
(* key changes the rotation with the same sign and the LEFT key with the   *)
(* opposite sign.                                                          *)
C18_SteerRightIds == {a \in 0 .. 7 : decode(a)[2] = steering}
C18_KeyStep(keys) ==
    /\ ~frame_buffer
    /\ ~agent_active
    /\ \E sync \in BOOLEAN, aliveNext \in BOOLEAN, d \in TickSteps :
        Env_step(FALSE, 0, sync, keys, <<>>, aliveNext, ticks + d)
C18_SteerRightSameSign ==
    [][/\ \E a \in C18_SteerRightIds : decode(a) = <<acceleration, steering>>
       /\ C18_KeyStep({"RIGHT"})
            => (~raised' /\ rotation' = rotation + (steering * attenuation) \div AttUnit)
       /\ C18_KeyStep({"LEFT"})
            => (~raised' /\ rotation' = rotation - (steering * attenuation) \div AttUnit)]_vars

(* ---------------------------------------------------------------------- *)
(* The lifetime of one Env under its host loop: construct, reset, then     *)
(* step and state in turn until the exit flag is seen, a call raises or    *)
(* the host has made its last iteration, then release. lastOp is the       *)
(* host's position.                                                        *)
Env_release ==
    /\ lastOp' = "release"
    /\ raised' = FALSE
    /\ releases' = releases + 1
    /\ UNCHANGED <<spriteVars, unitVars, configVars, blVars, done, exit,
                   attenuation, prev_time, ticks, alive, trackActs, stepCalls,
                   deadSeen, ret, log, polled>>

HostMayRelease_again ==
    /\ releases <= 1
    /\ lastOp # "init"
    /\ (raised \/ lastOp \in {"reset", "state", "release"})
HostMayRelease ==
    /\ releases = 0
    /\ lastOp # "init"
    /\ (raised \/ lastOp \in {"reset", "state"})

HostKeys == IF frame_buffer \/ agent_active THEN {{}} ELSE {{}, {"UP"}, {"LEFT"}}
HostEvents == IF frame_buffer THEN {<<>>} ELSE {<<>>, <<"QUIT">>}
HostActions == {<<FALSE, 0>>, <<TRUE, 0>>}

Host_reset == lastOp = "init" /\ Env_reset(TrackStart)
Host_step ==
    /\ lastOp \in {"reset", "state"}
    /\ ~raised
    /\ ~exit
    /\ \E keys \in HostKeys, events \in HostEvents, ac \in HostActions,
          aliveNext \in BOOLEAN, sync \in BOOLEAN :
            Env_step(ac[1], ac[2], sync, keys, events, aliveNext, ticks + 17)
Host_state ==
    /\ lastOp = "step"
    /\ ~raised
    /\ \E params_active \in BOOLEAN : Env_state(TRUE, params_active)
Host_release == HostMayRelease /\ Env_release

HostNext == Host_reset \/ Host_step \/ Host_state \/ Host_release

(* The host is one thread: it does not stop before the reset, between a    *)
(* step and the state call that follows it, or before the release. Whether *)
(* it takes another step is its own choice.                                *)
SpecLife ==
    /\ Init
    /\ [][HostNext]_vars
    /\ WF_vars(Host_reset)
    /\ WF_vars(Host_state)
    /\ WF_vars(Host_release)

MaxPolls == 2
InputKeys == {{}, {"UP"}, {"DOWN"}, {"LEFT"}, {"RIGHT"}, Keys}
InputQueues == {<<>>, <<"R", "QUIT">>} \cup {<<k>> : k \in EventKinds}

Env_event_handler(keys, events) ==
    \E e \in {event_handler(Cur, keys, events)} :
        /\ polled.n < MaxPolls
        /\ velocity' = e.velocity
        /\ rotation' = e.rotation
        /\ position' = e.position
        /\ exit' = e.exit
        /\ alive' = e.alive
        /\ raised' = e.raised
        /\ lastOp' = "event_handler"
        /\ polled' = [n |-> polled.n + 1, keys |-> keys, events |-> events]
        /\ UNCHANGED <<done, attenuation, prev_time, ticks, trackActs, stepCalls,
                       deadSeen, ret, log, releases, unitVars, configVars,
                       blVars>>

Poll == \E keys \in InputKeys, events \in InputQueues :
            Env_event_handler(keys, events)
Release == releases = 0 /\ Env_release

InputNext == Poll \/ State \/ Reset \/ Release

SpecInput == Init /\ [][InputNext]_vars

(* C19: input handling is gated by mode: in headless (frame_buffer) mode   *)
(* Env.event_handler changes nothing (velocity, rotation, exit flag and    *)
(* track are unchanged whatever keys or events are pending); in windowed   *)
(* agent-active mode held arrow keys never change the velocity or the      *)
(* rotation, while the discrete events (close, escape, snapshot, manual    *)
(* reset) are still processed; and the exit flag, once set, is never       *)
(* cleared by any operation.                                               *)
C19_Has(events, kinds) == \E i \in 1 .. Len(events) : events[i] \in kinds
C19_InputGated ==
    [][/\ exit => exit'
       /\ (lastOp' = "event_handler" /\ polled'.n = polled.n + 1)
            => /\ frame_buffer
                    => /\ ~raised'
                       /\ UNCHANGED <<velocity, rotation, position, exit, alive>>
               /\ (~frame_buffer /\ agent_active)
                    => /\ ~raised'
                       /\ exit' = (exit \/ C19_Has(polled'.events, {"QUIT", "ESCAPE"}))
                       /\ IF C19_Has(polled'.events, {"R"})
                          THEN /\ velocity' = 0
                               /\ rotation' = 0
                               /\ position' = TrackStart
                               /\ alive'
                          ELSE UNCHANGED <<velocity, rotation, position, alive>>]_vars

C19_Witness ==
    /\ lastOp = "event_handler"
    /\ ~frame_buffer
    /\ agent_active
    /\ polled.keys = Keys
    /\ C19_Has(polled.events, {"QUIT"})
    /\ C19_Has(polled.events, {"R"})
    /\ velocity = 0
    /\ rotation = 0
    /\ exit
    /\ ~raised

====
